---- MODULE Spec2Model ----
(***************************************************************************)
(* Prover data pool of the witness-preparation server                      *)
(* (core/server/src/prover_server/pool.rs).                                *)
(*                                                                         *)
(* The model has three parts:                                              *)
(*   - the storage collaborator: the chain of committed blocks, the number *)
(*     of verified blocks, the committed account state after each block;   *)
(*   - the pool: one BlockSizedOperationsQueue per block size, the         *)
(*     prepared cache, the refill limit, behind one RwLock;                *)
(*   - the threads: maintain (the maintenance loop) and one consumer that  *)
(*     calls get and clean_up.                                             *)
(* The circuit crate (WitnessBuilder, apply_*_tx, calculate_*_from_witness)*)
(* and the storage crate are not part of pool.rs; they are modelled from   *)
(* their interface.                                                        *)
(***************************************************************************)
EXTENDS Integers, Sequences, FiniteSets, TLC

(***************************************************************************)
(* Bounds of the model.                                                    *)
(***************************************************************************)
\* number of blocks the storage may hold
MaxBlock == 4
\* number of blocks that may get verified
MaxVerified == 1
\* the refill limit is drawn from 1..MaxLimit at construction
MaxLimit == 2
\* number of operations of a block replayed on its own
MaxOps == 3

(***************************************************************************)
(* Configuration and the external data types.                              *)
(***************************************************************************)
\* models::params::block_chunk_sizes(): the supported block sizes
BlockSizes == {8, 16}

\* width of one chunk of public data (pool.rs:389)
PubdataChunkWidth == 64

Accounts == {0, 1, 2}
Tokens == {0, 1}
\* block.fee_account of every committed block
FeeAccount == 0

\* number of circuit chunks of each kind of FranklinOp
ChunksOf(kind) ==
    CASE kind = "Noop" -> 1
      [] kind = "Close" -> 1
      [] kind = "Transfer" -> 2
      [] kind = "TransferToNew" -> 5
      [] kind = "Deposit" -> 6
      [] kind = "Withdraw" -> 6
      [] kind = "FullExit" -> 6
      [] kind = "ChangePubKeyOffchain" -> 6

\* kinds whose transaction carries a signature that build_prover_data unpacks
SignedKinds == {"Transfer", "TransferToNew", "Withdraw", "Close"}

\* a FranklinOp: account is the account debited (credited for a deposit), to the
\* receiver of a transfer, fee 0 for the kinds that carry none
Op(kind, account, to, token, amount, fee) ==
    [kind |-> kind, account |-> account, to |-> to, token |-> token,
     amount |-> amount, fee |-> fee]

\* the operation lists a committed block may have: one list that fills the small
\* block size, with a transfer whose receiver is the fee account, and one that
\* needs the large one
BlockMenu ==
    { << Op("Deposit", 1, 1, 0, 2, 0), Op("Transfer", 1, FeeAccount, 0, 1, 1) >>,
      << Op("Deposit", 1, 1, 1, 2, 0), Op("Withdraw", 1, 1, 1, 1, 1),
         Op("Close", 2, 2, 0, 0, 0), Op("Noop", 0, 0, 0, 0, 0) >> }

RECURSIVE SumChunks(_)
SumChunks(ops) ==
    IF ops = << >> THEN 0 ELSE ChunksOf(Head(ops).kind) + SumChunks(Tail(ops))

Min(S) == CHOOSE x \in S : \A y \in S : x <= y

\* Block::smallest_block_size(): the smallest supported size the block's chunks fit
smallest_block_size(ops) ==
    Min({s \in BlockSizes : s >= SumChunks(ops)})

(***************************************************************************)
(* The account tree and the replay of operations on it.                    *)
(***************************************************************************)
\* committed state at block 0
GenesisTree == [a \in Accounts |-> [t \in Tokens |-> 0]]

RootBase == 32

RECURSIVE Pow(_, _)
Pow(b, e) == IF e = 0 THEN 1 ELSE b * Pow(b, e - 1)

RECURSIVE SumOver(_, _)
SumOver(S, f) ==
    IF S = {} THEN 0
    ELSE LET x == CHOOSE y \in S : TRUE IN f[x] + SumOver(S \ {x}, f)

\* CircuitAccountTree::root_hash(): an injective digest of the balances
root_hash(tree) ==
    SumOver(Accounts \X Tokens,
            [p \in Accounts \X Tokens |->
                tree[p[1]][p[2]] * Pow(RootBase, p[1] * Cardinality(Tokens) + p[2])])

Credit(tree, a, t, n) == [tree EXCEPT ![a][t] = @ + n]
Debit(tree, a, t, n) == [tree EXCEPT ![a][t] = @ - n]

\* apply_*_tx: the effect of one operation on the account tree
apply_tx(tree, op) ==
    CASE op.kind = "Deposit" -> Credit(tree, op.account, op.token, op.amount)
      [] op.kind \in {"Transfer", "TransferToNew"} ->
            Credit(Debit(tree, op.account, op.token, op.amount + op.fee),
                   op.to, op.token, op.amount)
      [] op.kind = "Withdraw" -> Debit(tree, op.account, op.token, op.amount + op.fee)
      [] op.kind = "FullExit" -> Debit(tree, op.account, op.token, op.amount)
      [] OTHER -> tree

\* the balance an operation needs on the debited account
Needs(op) ==
    CASE op.kind \in {"Transfer", "TransferToNew", "Withdraw"} -> op.amount + op.fee
      [] op.kind = "FullExit" -> op.amount
      [] OTHER -> 0

RECURSIVE Executable(_, _)
Executable(tree, ops) ==
    IF ops = << >> THEN TRUE
    ELSE /\ tree[Head(ops).account][Head(ops).token] >= Needs(Head(ops))
         /\ Executable(apply_tx(tree, Head(ops)), Tail(ops))

RECURSIVE ApplyAll(_, _)
ApplyAll(tree, ops) ==
    IF ops = << >> THEN tree ELSE ApplyAll(apply_tx(tree, Head(ops)), Tail(ops))

\* the mutant of collect_fees: the fees are not credited
collect_fees_dropped(tree, fee_account, fees) == tree

\* WitnessBuilder::collect_fees: the fees are credited to the fee account
RECURSIVE collect_fees(_, _, _)
collect_fees(tree, fee_account, fees) ==
    IF fees = << >> THEN tree
    ELSE collect_fees(Credit(tree, fee_account, Head(fees).token, Head(fees).amount),
                      fee_account, Tail(fees))

(***************************************************************************)
(* The storage collaborator.                                               *)
(***************************************************************************)
VARIABLES
    committed,          \* storage: the committed blocks, committed[n] is block n
    verified,           \* storage: blocks 1..verified have a verify operation
    limit,              \* ProversDataPool.limit
    order,              \* iteration order of the op_queues HashMap
    operations,         \* op_queues[size].operations, as block numbers
    last_loaded_block,  \* op_queues[size].last_loaded_block
    prepared,           \* ProversDataPool.prepared
    pc,                 \* position of the maintain thread
    qi,                 \* index in order of the queue the running pass visits next
    wlock,              \* holder of the write lock of the RwLock, or "none"
    rlock,              \* number of read guards of the RwLock
    poisoned,           \* the RwLock is poisoned
    failure,            \* why the maintain thread panicked, or "none"
    cpc,                \* position of the consumer thread
    inserted,           \* per size, the block numbers inserted into prepared, in order
    lost,               \* blocks taken from a queue whose replay gave no ProverData
    pass_operations,    \* operations when the prepare_next pass of this cycle began
    pass_prepared,      \* keys of prepared when the prepare_next pass of this cycle began
    unqueried,          \* sizes whose refill in this cycle left the storage alone
    cblock,             \* argument of the call of the consumer that is running, or 0
    got,                \* what the last get of the consumer since the last cycle returned
    block_ops,          \* the operations of the block handed to a replay on its own
    replayed            \* what the loop of that replay has accumulated, or NotReplayed

vars == << committed, verified, limit, order, operations, last_loaded_block, prepared,
           pc, qi, wlock, rlock, poisoned, failure, cpc, inserted, lost,
           pass_operations, pass_prepared, unqueried, cblock,
           got, block_ops, replayed >>

\* fees the state keeper collects for a block (plasma state)
RECURSIVE BlockFees(_)
BlockFees(ops) ==
    IF ops = << >> THEN << >>
    ELSE (IF Head(ops).kind \in {"Transfer", "TransferToNew", "Withdraw"}
          THEN << [token |-> Head(ops).token, amount |-> Head(ops).fee] >>
          ELSE << >>) \o BlockFees(Tail(ops))

\* committed account state after block n of the chain
RECURSIVE StateAt(_, _)
StateAt(chain, n) ==
    IF n = 0 THEN GenesisTree
    ELSE collect_fees(ApplyAll(StateAt(chain, n - 1), chain[n].ops),
                      chain[n].fee_account, BlockFees(chain[n].ops))

\* storage.load_committed_state(Some(n))
load_committed_state(n) == StateAt(committed, n)

\* storage.get_block_operations(n)
get_block_operations(n) == committed[n].ops

RECURSIVE SortedSeq(_)
SortedSeq(S) ==
    IF S = {} THEN << >> ELSE << Min(S) >> \o SortedSeq(S \ {Min(S)})

Take(s, n) == SubSeq(s, 1, IF n < Len(s) THEN n ELSE Len(s))

\* storage.load_unverified_commits_after_block(block_size, after, lim): the
\* committed blocks of that size without a verify operation, strictly after the
\* given block, ascending, at most lim of them
load_unverified_commits_after_block(block_size, after, lim) ==
    Take(SortedSeq({n \in 1..Len(committed) :
                        /\ committed[n].block_size = block_size
                        /\ n > after
                        /\ n > verified}), lim)

\* the state keeper commits the next block
CommitBlock ==
    /\ pc # "panicked"
    /\ Len(committed) < MaxBlock
    /\ \E ops \in BlockMenu :
          LET n == Len(committed) + 1
              before == StateAt(committed, n - 1)
              after == collect_fees(ApplyAll(before, ops), FeeAccount, BlockFees(ops))
          IN /\ Executable(before, ops)
             /\ committed' = Append(committed,
                    [block_number |-> n,
                     block_size |-> smallest_block_size(ops),
                     fee_account |-> FeeAccount,
                     new_root_hash |-> root_hash(after),
                     ops |-> ops])
    /\ UNCHANGED << verified, limit, order, operations, last_loaded_block, prepared, pc,
                    qi, wlock, rlock, poisoned, failure, cpc, inserted, lost,
                    pass_operations, pass_prepared, unqueried, got, cblock,
                    block_ops, replayed >>

\* a proof of the next block is verified
VerifyBlock ==
    /\ pc # "panicked"
    /\ verified < Len(committed)
    /\ verified < MaxVerified
    /\ verified' = verified + 1
    /\ UNCHANGED << committed, limit, order, operations, last_loaded_block, prepared,
                    pc, qi, wlock, rlock, poisoned, failure, cpc, inserted, lost,
                    pass_operations, pass_prepared, unqueried, got, cblock,
                    block_ops, replayed >>

(***************************************************************************)
(* build_prover_data: the replay of one committed block.                   *)
(***************************************************************************)
\* what the collaborators of one replay may do: answer as they should, fail to
\* connect, fail a read, return the state of an older block, fail to unpack a
\* signature or to prepare its data, derive a witness or public data that is
\* too long
Faults == {"none", "connect", "state_err", "stale_state", "ops_err", "sig_unpack",
           "sig_data", "long_witness", "long_pubdata"}

Repeat(x, n) == [i \in 1..n |-> x]

\* calculate_*_operations_from_witness: one circuit operation per chunk
witness_operations(op, first, fault) ==
    Repeat(op.kind, ChunksOf(op.kind) + (IF first /\ fault = "long_witness" THEN 3 ELSE 0))

\* *_witness.get_pubdata(): its length
witness_pubdata(op, first, fault) ==
    PubdataChunkWidth *
        (ChunksOf(op.kind) + (IF first /\ fault = "long_pubdata" THEN 3 ELSE 0))

\* the mutant of fee_of: the push of the withdraw arm is missing
fee_of_without_withdraw(op) ==
    IF op.kind \in {"Transfer", "TransferToNew"}
    THEN << [token |-> op.token, amount |-> op.fee] >>
    ELSE << >>

\* the mutant of fee_of: a close is charged its fee field as a transfer is
fee_of_with_close(op) ==
    IF op.kind \in {"Transfer", "TransferToNew", "Withdraw", "Close"}
    THEN << [token |-> op.token, amount |-> op.fee] >>
    ELSE << >>

\* fees.push(CollectedFee {..}) of the match arms (pool.rs:240, 279, 318)
fee_of(op) ==
    IF op.kind \in {"Transfer", "TransferToNew", "Withdraw"}
    THEN << [token |-> op.token, amount |-> op.fee] >>
    ELSE << >>

\* the loop over the block's operations (pool.rs:194-385); acc is the
\* accumulated [tree, operations, pub_data, fees, err]
RECURSIVE replay_ops(_, _, _, _)
replay_ops(acc, ops, first, fault) ==
    IF ops = << >> \/ acc.err # "none" THEN acc
    ELSE LET op == Head(ops) IN
         IF op.kind = "Noop" THEN replay_ops(acc, Tail(ops), first, fault)
         ELSE IF op.kind \in SignedKinds /\ fault \in {"sig_unpack", "sig_data"}
         THEN [acc EXCEPT !.tree = apply_tx(acc.tree, op), !.err = fault]
         ELSE replay_ops(
                [tree |-> apply_tx(acc.tree, op),
                 operations |-> acc.operations \o witness_operations(op, first, fault),
                 pub_data |-> acc.pub_data + witness_pubdata(op, first, fault),
                 fees |-> acc.fees \o fee_of(op),
                 err |-> "none"],
                Tail(ops), FALSE, fault)

\* WitnessBuilder::extend_pubdata_with_noops: the operations padded with no-ops
\* up to block_size entries
pad_operations(ops, block_size) ==
    IF Len(ops) < block_size THEN ops \o Repeat("Noop", block_size - Len(ops)) ELSE ops

\* WitnessBuilder::extend_pubdata_with_noops: the public data padded up to
\* 64 * block_size
pad_pubdata(len, block_size) ==
    IF len < PubdataChunkWidth * block_size THEN PubdataChunkWidth * block_size ELSE len

\* the mutant of lengths_ok: the two length assertions are dropped
lengths_unchecked(pubdata_len, operations_len, block_size) == TRUE

\* assert_eq!(pubdata.len(), 64 * block_size); assert_eq!(operations.len(), block_size)
lengths_ok(pubdata_len, operations_len, block_size) ==
    /\ pubdata_len = PubdataChunkWidth * block_size
    /\ operations_len = block_size

\* the mutant of root_ok: the root assertion is dropped
root_unchecked(root_after_fees, new_root_hash) == TRUE

\* assert_eq!(root_after_fees, commit_operation.block.new_root_hash)
root_ok(root_after_fees, new_root_hash) == root_after_fees = new_root_hash

\* WitnessBuilder::calculate_pubdata_commitment: a binding digest of the public
\* data, the two roots, the fee account and the block number
pubdata_commitment(pubdata_len, initial_root, root_after_fees, fee_account, block_number) ==
    << pubdata_len, initial_root, root_after_fees, fee_account, block_number >>

NoProverData == [block_number |-> 0]

Err(reason) == [tag |-> "Err", reason |-> reason, pd |-> NoProverData]
Panic(reason) == [tag |-> "Panic", reason |-> reason, pd |-> NoProverData]

\* the mutant of snapshot_of: the snapshot two blocks back is asked for
snapshot_two_back(block_number) == block_number - 2

\* Some(block_number - 1): the block whose committed state the replay starts
\* from; BlockNumber is unsigned, below 0 the subtraction overflows
snapshot_of(block_number) == block_number - 1

\* build_prover_data(storage, commit_operation): Ok(ProverData), Err or a panic.
\* witness is added to the ProverData for the checks: the lengths and the
\* replayed root of the accumulator the ProverData was assembled from.
build_prover_data(commit_operation, fault) ==
    LET block_number == commit_operation.block_number
        block_size == commit_operation.block_size
        snapshot == IF fault = "stale_state" /\ block_number >= 2
                    THEN block_number - 2 ELSE snapshot_of(block_number)
        account_tree == load_committed_state(snapshot)
        initial_root == root_hash(account_tree)
        acc == replay_ops([tree |-> account_tree, operations |-> << >>, pub_data |-> 0,
                           fees |-> << >>, err |-> "none"],
                          get_block_operations(block_number), TRUE, fault)
        operations_padded == pad_operations(acc.operations, block_size)
        pubdata_padded == pad_pubdata(acc.pub_data, block_size)
        tree_after_fees == collect_fees(acc.tree, commit_operation.fee_account, acc.fees)
        root_after_fees == root_hash(tree_after_fees)
    IN  IF snapshot < 0 THEN Panic("subtract with overflow")
        ELSE IF fault \in {"state_err", "ops_err"} THEN Err(fault)
        ELSE IF acc.err # "none" THEN Err(acc.err)
        ELSE IF ~lengths_ok(pubdata_padded, Len(operations_padded), block_size)
        THEN Panic("assert_lengths")
        ELSE IF ~root_ok(root_after_fees, commit_operation.new_root_hash)
        THEN Panic("assert_root")
        ELSE [tag |-> "Ok", reason |-> "none",
              pd |-> [public_data_commitment |->
                          pubdata_commitment(pubdata_padded, initial_root, root_after_fees,
                                             commit_operation.fee_account, block_number),
                      old_root |-> initial_root,
                      new_root |-> commit_operation.new_root_hash,
                      validator_address |-> commit_operation.fee_account,
                      operations |-> operations_padded,
                      validator_balances |-> tree_after_fees[commit_operation.fee_account],
                      witness |-> [pubdata_len |-> pubdata_padded,
                                   root_after_fees |-> root_after_fees,
                                   fees |-> acc.fees]]]

(***************************************************************************)
(* BlockSizedOperationsQueue.                                              *)
(***************************************************************************)
Last(s) == s[Len(s)]

\* what the storage may do in one refill of a queue
RefillFaults == {"none", "connect", "load_err"}

\* the mutant of needs_refill: the comparison is the wrong way round
needs_refill_inverted(len, lim) == len > lim

\* the mutant of needs_refill: the backlog is refilled also when it is at the limit
needs_refill_at_limit(len, lim) == len <= lim

\* if self.operations.len() < limit as usize
needs_refill(len, lim) == len < lim

\* the mutant of cursor_after: the cursor is set from the front of the queue
cursor_at_front(ops, cursor) ==
    IF ops # << >> THEN committed[Head(ops)].block_number ELSE cursor

\* the mutant of cursor_after: the cursor is left where it was
cursor_kept(ops, cursor) == cursor

\* the mutant of cursor_after: an empty queue resets the cursor
cursor_or_zero(ops, cursor) ==
    IF ops # << >> THEN committed[Last(ops)].block_number ELSE 0

\* if let Some(op) = self.operations.back() { self.last_loaded_block = op.block.block_number }
cursor_after(ops, cursor) ==
    IF ops # << >> THEN committed[Last(ops)].block_number ELSE cursor

\* the mutant of extend: the loaded blocks replace the backlog
extend_replacing(ops, loaded) == loaded

\* self.operations.extend(ops)
extend(ops, loaded) == ops \o loaded

\* the mutant of queue_on_load_err: the error surfaces after the blocks the
\* storage had were appended and the cursor moved
queue_on_load_err_after_extend(size) ==
    LET extended == extend(operations[size],
                           load_unverified_commits_after_block(
                               size, last_loaded_block[size], limit))
    IN [operations |-> extended,
        last_loaded_block |-> cursor_after(extended, last_loaded_block[size])]

\* .map_err(..)? on the result of load_unverified_commits_after_block: the early
\* return comes before extend and before the cursor is assigned
queue_on_load_err(size) ==
    [operations |-> operations[size], last_loaded_block |-> last_loaded_block[size]]

\* BlockSizedOperationsQueue::take_next_commits_if_needed(conn_pool, limit) of the
\* queue of one size: the new [operations, last_loaded_block], whether the storage
\* was and Ok, Err or a panic
queue_take_next_commits_if_needed(size, fault) ==
    LET unchanged == [operations |-> operations[size],
                      last_loaded_block |-> last_loaded_block[size]]
    IN  IF needs_refill(Len(operations[size]), limit)
        THEN IF fault = "connect"
             THEN [tag |-> "Panic", reason |-> "connect", queried |-> FALSE,
                   queue |-> unchanged]
             ELSE IF fault = "load_err"
             THEN [tag |-> "Err", reason |-> "load_err", queried |-> TRUE,
                   queue |-> queue_on_load_err(size)]
             ELSE LET ops == load_unverified_commits_after_block(
                                 size, last_loaded_block[size], limit)
                      extended == extend(operations[size], ops)
                  IN [tag |-> "Ok", reason |-> "none", queried |-> TRUE,
                      queue |-> [operations |-> extended,
                                 last_loaded_block |->
                                     cursor_after(extended, last_loaded_block[size])]]
        ELSE [tag |-> "Ok", reason |-> "none", queried |-> FALSE, queue |-> unchanged]

\* the mutant of pop_front: the head is read and left in the queue
pop_front_kept(ops) == ops

\* the mutant of pop_front: the queue is drained
pop_front_all(ops) == << >>

\* self.operations.pop_front(): what is left of the queue
pop_front(ops) == Tail(ops)

\* BlockSizedOperationsQueue::prepare_next_if_any(conn_pool) of the queue of one
\* size: the queue left, and None, Some((block_number, pd)), Err or a panic
queue_prepare_next_if_any(size, fault) ==
    IF operations[size] = << >>
    THEN [tag |-> "None", reason |-> "none", operations |-> operations[size],
          block_number |-> 0, pd |-> NoProverData]
    ELSE LET op == committed[Head(operations[size])]
             rest == pop_front(operations[size])
             built == build_prover_data(op, fault)
         IN IF fault = "connect"
            THEN [tag |-> "Panic", reason |-> "connect", operations |-> rest,
                  block_number |-> op.block_number, pd |-> NoProverData]
            ELSE [tag |-> IF built.tag = "Ok" THEN "Some" ELSE built.tag,
                  reason |-> built.reason, operations |-> rest,
                  block_number |-> op.block_number, pd |-> built.pd]

(***************************************************************************)
(* ProversDataPool and the maintain thread.                                *)
(***************************************************************************)
Orders(S) ==
    {p \in [1..Cardinality(S) -> S] : \A i, j \in DOMAIN p : i # j => p[i] # p[j]}

\* self.prepared.get(&block): Some(&ProverData) or None
get(map, block_number) ==
    IF block_number \in DOMAIN map
    THEN [block_number |-> block_number, some |-> TRUE, pd |-> map[block_number]]
    ELSE [block_number |-> block_number, some |-> FALSE, pd |-> NoProverData]

\* the consumer has called no get since the maintain thread last took the lock
NoGet == [block_number |-> 0, some |-> FALSE, pd |-> NoProverData]

\* no replay on its own has run
NotReplayed == [tree |-> GenesisTree, operations |-> << >>, pub_data |-> 0,
                fees |-> << >>, err |-> "not replayed"]

\* ProversDataPool::new(limit), shared behind the RwLock; no thread has started
Init ==
    /\ committed = << >>
    /\ verified = 0
    /\ limit \in 1..MaxLimit
    /\ order \in Orders(BlockSizes)
    /\ operations = [s \in BlockSizes |-> << >>]
    /\ last_loaded_block = [s \in BlockSizes |-> 0]
    /\ prepared = << >>
    /\ pc = "lock"
    /\ qi = 1
    /\ wlock = "none"
    /\ rlock = 0
    /\ poisoned = FALSE
    /\ failure = "none"
    /\ cpc = "idle"
    /\ inserted = [s \in BlockSizes |-> << >>]
    /\ lost = {}
    /\ pass_operations = [s \in BlockSizes |-> << >>]
    /\ pass_prepared = {}
    /\ unqueried = {}
    /\ cblock = 0
    /\ got = NoGet
    /\ block_ops = << >>
    /\ replayed = NotReplayed

\* self.prepared.insert(block_number, pd)
insert(map, block_number, pd) ==
    [b \in DOMAIN map \cup {block_number} |-> IF b = block_number THEN pd ELSE map[b]]

\* the mutant of remove: the entry is left in the cache
remove_kept(map, block_number) == map

\* the mutant of remove: the cache is cleared
remove_all(map, block_number) == << >>

\* self.prepared.remove(&block)
remove(map, block_number) == [b \in DOMAIN map \ {block_number} |-> map[b]]

\* the mutant of MaintainPanics: the error is logged and the loop goes on to its
\* next iteration
MaintainRetries(reason) ==
    /\ pc' = "lock"
    /\ failure' = reason
    /\ wlock' = "none"
    /\ poisoned' = FALSE
    /\ qi' = qi

\* a panic of the maintain thread: the unwinding drops the write guard and
\* poisons the lock, the thread is gone
MaintainPanics(reason) ==
    /\ pc' = "panicked"
    /\ failure' = reason
    /\ wlock' = "none"
    /\ poisoned' = TRUE
    /\ qi' = qi

\* the mutant of Acquire: the write guard is given while read guards are out
\* or another write guard is held
AcquireUnguarded ==
    /\ pc = "lock"
    /\ wlock' = "maintain"
    /\ pc' = "refill"
    /\ qi' = 1
    /\ got' = NoGet
    /\ UNCHANGED << committed, verified, limit, order, operations, last_loaded_block,
                    prepared, rlock, poisoned, failure, cpc, inserted, lost,
                    pass_operations, pass_prepared, unqueried, cblock,
                    block_ops, replayed >>

\* let mut pool = data.write().expect(..): top of the loop of maintain
Acquire ==
    /\ pc = "lock"
    /\ wlock = "none"
    /\ rlock = 0
    /\ wlock' = "maintain"
    /\ pc' = "refill"
    /\ qi' = 1
    /\ got' = NoGet
    /\ UNCHANGED << committed, verified, limit, order, operations, last_loaded_block,
                    prepared, rlock, poisoned, failure, cpc, inserted, lost,
                    pass_operations, pass_prepared, unqueried, cblock,
                    block_ops, replayed >>

\* one iteration of the loop of ProversDataPool::take_next_commits_if_needed, and
\* the .expect("couldn't get next commits") of maintain on its result, the
\* storage doing one of the things in faults
RefillStepUnder(faults) ==
    /\ pc = "refill"
    /\ \E fault \in faults :
          \E size \in {order[qi]} :
          \E r \in {queue_take_next_commits_if_needed(size, fault)} :
             /\ operations' = [operations EXCEPT ![size] = r.queue.operations]
             /\ last_loaded_block' =
                    [last_loaded_block EXCEPT ![size] = r.queue.last_loaded_block]
             /\ unqueried' = IF r.tag = "Ok" /\ ~r.queried
                             THEN unqueried \cup {size} ELSE unqueried
             /\ IF r.tag = "Ok"
                THEN /\ IF qi < Len(order)
                        THEN /\ pc' = "refill"
                             /\ qi' = qi + 1
                             /\ UNCHANGED << pass_operations, pass_prepared >>
                        ELSE /\ pc' = "prepare"
                             /\ qi' = 1
                             /\ pass_operations' = operations'
                             /\ pass_prepared' = DOMAIN prepared
                     /\ UNCHANGED << wlock, poisoned, failure >>
                ELSE /\ MaintainPanics(IF r.tag = "Err" THEN "couldn't get next commits"
                                       ELSE r.reason)
                     /\ UNCHANGED << pass_operations, pass_prepared >>
    /\ UNCHANGED << committed, verified, limit, order, prepared, rlock, cpc, inserted,
                    lost, got, cblock,
                    block_ops, replayed >>

RefillStep == RefillStepUnder(RefillFaults)

\* one iteration of the loop of ProversDataPool::prepare_next, and the
\* .expect("couldn't prepare next commits") of maintain on its result, the
\* collaborators of the replay doing one of the things in faults
PrepareStepUnder(faults) ==
    /\ pc = "prepare"
    /\ \E fault \in faults :
          \E size \in {order[qi]} : \E r \in {queue_prepare_next_if_any(size, fault)} :
             /\ operations' = [operations EXCEPT ![size] = r.operations]
             /\ prepared' = IF r.tag = "Some"
                            THEN insert(prepared, r.block_number, r.pd) ELSE prepared
             /\ inserted' = IF r.tag = "Some"
                            THEN [inserted EXCEPT ![size] = Append(@, r.block_number)]
                            ELSE inserted
             /\ lost' = IF r.tag \in {"Err", "Panic"}
                        THEN lost \cup {r.block_number} ELSE lost
             /\ IF r.tag \in {"None", "Some"}
                THEN /\ IF qi < Len(order)
                        THEN pc' = "prepare" /\ qi' = qi + 1
                        ELSE pc' = "sleep" /\ qi' = 1
                     /\ UNCHANGED << wlock, poisoned, failure >>
                ELSE MaintainPanics(IF r.tag = "Err" THEN "couldn't prepare next commits"
                                    ELSE r.reason)
    /\ UNCHANGED << committed, verified, limit, order, last_loaded_block, rlock, cpc,
                    pass_operations, pass_prepared, unqueried, got, cblock,
                    block_ops, replayed >>

PrepareStep == PrepareStepUnder(Faults)

\* thread::sleep(rounds_interval) returns; the write guard pool is dropped at the
\* end of the loop body
WakeUp ==
    /\ pc = "sleep"
    /\ pc' = "lock"
    /\ wlock' = "none"
    /\ pass_operations' = [s \in BlockSizes |-> << >>]
    /\ pass_prepared' = {}
    /\ unqueried' = {}
    /\ UNCHANGED << committed, verified, limit, order, operations, last_loaded_block,
                    prepared, qi, rlock, poisoned, failure, cpc, inserted, lost, got,
                    cblock,
                    block_ops, replayed >>

(***************************************************************************)
(* The consumer thread: get under a read guard, clean_up under the write   *)
(* guard. A poisoned lock gives no guard.                                  *)
(***************************************************************************)
GetBegin ==
    /\ cpc = "idle"
    /\ wlock = "none"
    /\ ~poisoned
    /\ cpc' = "get"
    /\ cblock' \in 1..MaxBlock
    /\ rlock' = rlock + 1
    /\ UNCHANGED << committed, verified, limit, order, operations, last_loaded_block,
                    prepared, pc, qi, wlock, poisoned, failure, inserted, lost,
                    pass_operations, pass_prepared, unqueried, got,
                    block_ops, replayed >>

\* ProversDataPool::get(block): the guard is dropped after the lookup
GetEnd ==
    /\ cpc = "get"
    /\ got' = get(prepared, cblock)
    /\ cblock' = 0
    /\ cpc' = "idle"
    /\ rlock' = rlock - 1
    /\ UNCHANGED << committed, verified, limit, order, operations, last_loaded_block,
                    prepared, pc, qi, wlock, poisoned, failure, inserted, lost,
                    pass_operations, pass_prepared, unqueried,
                    block_ops, replayed >>

CleanUpBegin ==
    /\ cpc = "idle"
    /\ wlock = "none"
    /\ rlock = 0
    /\ ~poisoned
    /\ cpc' = "clean_up"
    /\ cblock' \in 1..MaxBlock
    /\ wlock' = "consumer"
    /\ UNCHANGED << committed, verified, limit, order, operations, last_loaded_block,
                    prepared, pc, qi, rlock, poisoned, failure, inserted, lost,
                    pass_operations, pass_prepared, unqueried, got,
                    block_ops, replayed >>

\* ProversDataPool::clean_up(block): the guard is dropped after the removal
CleanUpEnd ==
    /\ cpc = "clean_up"
    /\ prepared' = remove(prepared, cblock)
    /\ cblock' = 0
    /\ cpc' = "idle"
    /\ wlock' = "none"
    /\ UNCHANGED << committed, verified, limit, order, operations, last_loaded_block,
                    pc, qi, rlock, poisoned, failure, inserted, lost, pass_operations,
                    pass_prepared, unqueried, got,
                    block_ops, replayed >>

(***************************************************************************)
(* The loop of build_prover_data on its own: a block of any operations is   *)
(* replayed on a tree in which every account can pay for them.              *)
(***************************************************************************)
\* one operation of every kind of FranklinOp, the fees of the kinds that carry
\* one differing in token or amount
OpAlphabet ==
    { Op("Deposit", 1, 1, 0, 2, 0),
      Op("Transfer", 1, 2, 0, 1, 1),
      Op("TransferToNew", 1, 2, 1, 1, 2),
      Op("Withdraw", 2, 2, 1, 1, 1),
      Op("Close", 2, 2, 0, 0, 0),
      Op("FullExit", 1, 1, 0, 1, 0),
      Op("ChangePubKeyOffchain", 1, 1, 0, 0, 0),
      Op("Noop", 0, 0, 0, 0, 0) }

\* the lists of at most n operations
OpLists(n) == UNION {[1..k -> OpAlphabet] : k \in 0..n}

\* the state a replay on its own starts from
FundedTree == [a \in Accounts |-> [t \in Tokens |-> 3 * MaxOps]]

\* a pool as constructed, and a block of operations to replay
ReplayInit ==
    /\ committed = << >>
    /\ verified = 0
    /\ limit = 1
    /\ order = SortedSeq(BlockSizes)
    /\ operations = [s \in BlockSizes |-> << >>]
    /\ last_loaded_block = [s \in BlockSizes |-> 0]
    /\ prepared = << >>
    /\ pc = "lock"
    /\ qi = 1
    /\ wlock = "none"
    /\ rlock = 0
    /\ poisoned = FALSE
    /\ failure = "none"
    /\ cpc = "idle"
    /\ inserted = [s \in BlockSizes |-> << >>]
    /\ lost = {}
    /\ pass_operations = [s \in BlockSizes |-> << >>]
    /\ pass_prepared = {}
    /\ unqueried = {}
    /\ cblock = 0
    /\ got = NoGet
    /\ block_ops \in OpLists(MaxOps)
    /\ replayed = NotReplayed

\* for op in ops { match op {..} } of build_prover_data (pool.rs:191-385)
Replay ==
    /\ replayed = NotReplayed
    /\ \E fault \in Faults \ {"connect", "state_err", "stale_state", "ops_err"} :
          replayed' = replay_ops([tree |-> FundedTree, operations |-> << >>,
                                  pub_data |-> 0, fees |-> << >>, err |-> "none"],
                                 block_ops, TRUE, fault)
    /\ UNCHANGED << committed, verified, limit, order, operations, last_loaded_block,
                    prepared, pc, qi, wlock, rlock, poisoned, failure, cpc, inserted,
                    lost, pass_operations, pass_prepared, unqueried, cblock, got,
                    block_ops >>

ReplayNext == Replay

ReplaySpec == ReplayInit /\ [][ReplayNext]_vars

Next ==
    \/ CommitBlock
    \/ VerifyBlock
    \/ Acquire
    \/ RefillStep
    \/ PrepareStep
    \/ WakeUp
    \/ GetBegin
    \/ GetEnd
    \/ CleanUpBegin
    \/ CleanUpEnd

Spec == Init /\ [][Next]_vars

(***************************************************************************)
(* The pool when no collaborator fails and the maintain thread keeps        *)
(* cycling: it is given the write lock again and again, a pass that has     *)
(* begun comes to its end (the calls to the storage and the replay return), *)
(* the sleep ends, and a clean_up that runs returns. The consumer only      *)
(* cleans up: a get writes nothing of the pool.                             *)
(***************************************************************************)
RefillOk == RefillStepUnder({"none"})

PrepareOk == PrepareStepUnder({"none"})

LiveNext ==
    \/ CommitBlock
    \/ VerifyBlock
    \/ Acquire
    \/ RefillOk
    \/ PrepareOk
    \/ WakeUp
    \/ CleanUpBegin
    \/ CleanUpEnd

LiveSpec ==
    /\ Init
    /\ [][LiveNext]_vars
    /\ SF_vars(Acquire)
    /\ []<>(pc \notin {"refill", "prepare"})
    /\ WF_vars(WakeUp)
    /\ WF_vars(CleanUpEnd)

TypeOK ==
    /\ Len(committed) <= MaxBlock
    /\ verified \in 0..Len(committed)
    /\ pc \in {"lock", "refill", "prepare", "sleep", "panicked"}

(***************************************************************************)
(* Properties.                                                             *)
(***************************************************************************)
Range(seq) == {seq[i] : i \in DOMAIN seq}

StrictlyAscending(seq) == \A i, j \in DOMAIN seq : i < j => seq[i] < seq[j]

Least(a, b) == IF a < b THEN a ELSE b

\* the blocks a refill of the queue of one size may ask the storage for
Eligible(size) ==
    {n \in 1..Len(committed) :
        /\ committed[n].block_size = size
        /\ n > last_loaded_block[size]
        /\ n > verified}

\* C1: every entry of the prepared cache has new_root equal to the root the
\* replay computed after the fees and to the committed root of its block, and a
\* block whose replayed root differs from the committed one aborts the maintain
\* thread and is in no entry of the cache.
C1_PreparedRootIsCommittedRoot ==
    /\ \A b \in DOMAIN prepared :
          /\ prepared[b].witness.root_after_fees = committed[b].new_root_hash
          /\ prepared[b].new_root = committed[b].new_root_hash
    /\ failure = "assert_root" =>
          /\ pc = "panicked"
          /\ lost # {}
          /\ lost \cap DOMAIN prepared = {}

\* a block was prepared and the replay of a later one aborted on its root
C1_Witness ==
    /\ failure = "assert_root"
    /\ lost # {}
    /\ DOMAIN prepared # {}

\* C2: every entry of the prepared cache has as many circuit operations as the
\* block size of its block and was assembled from 64 x block size of public data;
\* a replay whose padded lengths differ aborts the maintain thread and its block
\* is in no entry of the cache.
C2_PreparedLengths ==
    /\ \A b \in DOMAIN prepared :
          /\ Len(prepared[b].operations) = committed[b].block_size
          /\ prepared[b].witness.pubdata_len = 64 * committed[b].block_size
          /\ prepared[b].public_data_commitment[1] = 64 * committed[b].block_size
    /\ failure = "assert_lengths" =>
          /\ pc = "panicked"
          /\ lost # {}
          /\ lost \cap DOMAIN prepared = {}

\* a block of every size was prepared and the replay of a later block aborted
\* on its lengths
C2_Witness ==
    /\ failure = "assert_lengths"
    /\ \A size \in BlockSizes : \E b \in DOMAIN prepared : committed[b].block_size = size

\* C3: the maintain thread does not hold the write lock while it sleeps.
C3_SleepsWithoutLock == pc = "sleep" => wlock # "maintain"

\* C4: for every size, the block numbers inserted into the prepared cache are
\* strictly increasing, the queue is strictly ascending, and all it holds is
\* above everything inserted from it.
C4_AscendingPerSize ==
    \A size \in BlockSizes :
        /\ StrictlyAscending(inserted[size])
        /\ StrictlyAscending(operations[size])
        /\ \A a \in Range(inserted[size]) : \A b \in Range(operations[size]) : a < b

\* two blocks of one size were inserted and more are queued behind them
C4_Witness ==
    \E size \in BlockSizes : Len(inserted[size]) >= 2 /\ operations[size] # << >>

\* C5: no queue ever holds more blocks than the limit.
C5_BacklogWithinLimit == \A size \in BlockSizes : Len(operations[size]) <= limit

\* C6: for every size, last_loaded_block never decreases and is 0 or the number
\* of a block of that size the storage holds.
C6_CursorMonotoneAndInStorage ==
    /\ [](\A size \in BlockSizes :
            \/ last_loaded_block[size] = 0
            \/ /\ last_loaded_block[size] \in 1..Len(committed)
               /\ committed[last_loaded_block[size]].block_size = size)
    /\ [][\A size \in BlockSizes : last_loaded_block'[size] >= last_loaded_block[size]]_vars

\* after two insertions from a queue its cursor is at the newest block of the storage
C6_Witness ==
    \E size \in BlockSizes :
        /\ Len(inserted[size]) >= 2
        /\ last_loaded_block[size] = Len(committed)

\* the refill of the queue of one size returned Ok in this step
RefillDone(size) ==
    /\ pc = "refill"
    /\ order[qi] = size
    /\ pc' # "panicked"
    /\ (pc' = "prepare" \/ qi' = qi + 1)

\* C7: a refill of a queue shorter than the limit appends the min(limit, k) lowest
\* of the k eligible blocks in ascending order and nothing else, and moves
\* last_loaded_block to the last one appended; with no eligible block it appends
\* nothing and leaves last_loaded_block as it was.
C7_RefillAppendsEligible ==
    [][\A size \in BlockSizes :
          (RefillDone(size) /\ Len(operations[size]) < limit) =>
             LET old == operations[size]
                 new == operations'[size]
                 k == Least(limit, Cardinality(Eligible(size)))
                 appended == SubSeq(new, Len(old) + 1, Len(new))
             IN /\ Len(new) = Len(old) + k
                /\ SubSeq(new, 1, Len(old)) = old
                /\ StrictlyAscending(appended)
                /\ Range(appended) \subseteq Eligible(size)
                /\ \A n \in Eligible(size) \ Range(appended) :
                      \A m \in Range(appended) : m < n
                /\ last_loaded_block'[size] =
                      IF k > 0 THEN appended[k] ELSE last_loaded_block[size]]_vars

\* with limit 2, after an earlier cycle, the refill of a queue has left it with
\* one block: fewer blocks than the limit were eligible
C7_Witness ==
    /\ pc = "prepare"
    /\ limit = 2
    /\ \E size \in BlockSizes :
          /\ size \notin unqueried
          /\ inserted[size] # << >>
          /\ Len(operations[size]) = 1
          /\ last_loaded_block[size] = operations[size][1]

\* C8: the refill of a queue that holds limit blocks or more changes no queue and
\* no cursor, does not query the storage and cannot fail.
C8_RefillAtLimitIsNoOp ==
    [][(pc = "refill" /\ Len(operations[order[qi]]) >= limit) =>
          /\ operations' = operations
          /\ last_loaded_block' = last_loaded_block
          /\ pc' # "panicked"
          /\ \A fault \in RefillFaults :
                ~queue_take_next_commits_if_needed(order[qi], fault).queried]_vars

\* the refill of a queue at the limit has left the storage alone
C8_Witness ==
    \E size \in unqueried : Len(operations[size]) >= limit

\* C9: when the replay of the block taken from a queue returns an error, the
\* queue is left with the blocks behind it, no other queue changes, the block is
\* in no queue and not in the prepared cache, and it is not above the cursor of
\* its queue, so that the storage would not return it to a refill.
C9_FailedBlockIsGone ==
    /\ [](failure = "couldn't prepare next commits" =>
            \A b \in lost :
               /\ b \notin DOMAIN prepared
               /\ \A size \in BlockSizes : b \notin Range(operations[size])
               /\ b <= last_loaded_block[committed[b].block_size]
               /\ b \notin Eligible(committed[b].block_size))
    /\ [][(pc = "prepare" /\ failure' = "couldn't prepare next commits") =>
             /\ operations[order[qi]] # << >>
             /\ lost' = {Head(operations[order[qi]])}
             /\ operations' = [operations EXCEPT ![order[qi]] = Tail(@)]
             /\ prepared' = prepared]_vars

\* the replay of a block returned an error and blocks were queued behind it
C9_Witness ==
    /\ failure = "couldn't prepare next commits"
    /\ \E b \in lost : operations[committed[b].block_size] # << >>

\* C10: when a prepare_next pass is over, every queue that was empty is empty,
\* every other queue has lost its head and nothing else, the head is in the
\* prepared cache under its own block number, and the cache has gained these
\* heads and nothing else; during the pass no queue has lost more than its head.
C10_OneBlockPerSize ==
    /\ pc \in {"prepare", "sleep"} =>
          /\ \A size \in BlockSizes :
                \/ operations[size] = pass_operations[size]
                \/ /\ pass_operations[size] # << >>
                   /\ operations[size] = Tail(pass_operations[size])
          /\ Cardinality(DOMAIN prepared \ pass_prepared) <= Cardinality(BlockSizes)
    /\ pc = "sleep" =>
          /\ \A size \in BlockSizes :
                IF pass_operations[size] = << >>
                THEN operations[size] = << >>
                ELSE /\ operations[size] = Tail(pass_operations[size])
                     /\ Head(pass_operations[size]) \in DOMAIN prepared
                     /\ prepared[Head(pass_operations[size])].public_data_commitment[5]
                           = Head(pass_operations[size])
                     /\ prepared[Head(pass_operations[size])].new_root
                           = committed[Head(pass_operations[size])].new_root_hash
          /\ DOMAIN prepared =
                pass_prepared \cup {Head(pass_operations[size]) :
                                       size \in {t \in BlockSizes : pass_operations[t] # << >>}}

\* a pass is over in which one queue was empty and another held several blocks
C10_Witness ==
    /\ pc = "sleep"
    /\ \E size \in BlockSizes : pass_operations[size] = << >>
    /\ \E size \in BlockSizes : Len(pass_operations[size]) >= 2

\* C11: when the storage returns an error to the refill of one queue, the pass
\* stops there and the maintain thread ends on the error: no later queue is
\* visited, the queues refilled before keep what they were given, the failing
\* queue and the queues not yet visited keep their blocks and their cursor, and
\* the prepared cache is as it was.
C11_RefillErrorKeepsProgress ==
    /\ [][(pc = "refill" /\ failure' = "couldn't get next commits") =>
             /\ pc' = "panicked"
             /\ qi' = qi
             /\ operations' = operations
             /\ last_loaded_block' = last_loaded_block
             /\ prepared' = prepared]_vars
    /\ [](failure = "couldn't get next commits" =>
            /\ pc = "panicked"
            /\ \A size \in BlockSizes :
                  operations[size] # << >> =>
                      last_loaded_block[size] = Last(operations[size]))

\* the refill of the second queue failed in the first cycle that found blocks:
\* the first queue holds the blocks it was given in this pass, the second none,
\* though the storage has a block for it
C11_Witness ==
    /\ failure = "couldn't get next commits"
    /\ qi = 2
    /\ inserted = [s \in BlockSizes |-> << >>]
    /\ lost = {}
    /\ operations[order[1]] # << >>
    /\ last_loaded_block[order[1]] = Last(operations[order[1]])
    /\ operations[order[2]] = << >>
    /\ last_loaded_block[order[2]] = 0
    /\ Eligible(order[2]) # {}

\* C12: a get changes nothing of the pool and returns the entry of its block
\* number; a get that follows a get of the same block number, the block still
\* cached, returns the same ProverData; no entry changes while it is cached;
\* clean_up(b) leaves a cache in which get(b) is absent, every other entry as it
\* was, and every queue and cursor as it was; clean_up of a block number that is
\* not cached changes nothing.
C12_GetReadsCleanUpRemovesOne ==
    /\ [][(cpc = "get" /\ cpc' = "idle") =>
             /\ UNCHANGED << operations, last_loaded_block, prepared, limit >>
             /\ got' = get(prepared, cblock)
             /\ (got.some /\ got.block_number = cblock /\ cblock \in DOMAIN prepared) =>
                    got' = got]_vars
    /\ [][(cpc = "clean_up" /\ cpc' = "idle") =>
             /\ ~get(prepared', cblock).some
             /\ DOMAIN prepared' = DOMAIN prepared \ {cblock}
             /\ \A b \in DOMAIN prepared' : prepared'[b] = prepared[b]
             /\ cblock \notin DOMAIN prepared => prepared' = prepared
             /\ UNCHANGED << operations, last_loaded_block, limit >>]_vars
    /\ [][\A b \in DOMAIN prepared \cap DOMAIN prepared' : prepared'[b] = prepared[b]]_vars

\* a get has returned the ProverData of a block, then clean_up has removed that
\* block and left another in the cache
C12_Witness ==
    /\ got.some
    /\ got.block_number \notin DOMAIN prepared
    /\ DOMAIN prepared # {}
    /\ cpc = "idle"

\* the maintain thread has ended on an error of one of its two passes
Fatal == failure \in {"couldn't get next commits", "couldn't prepare next commits"}

\* C13: an error of the refill pass or of the prepare pass ends the maintain
\* thread where it occurs: the thread is gone for good, a failed refill pass is
\* followed by no prepare pass (no queue loses a block, nothing is inserted), and
\* after the error no queue, no cursor and no entry of the cache is written by
\* the maintain thread.
C13_ErrorIsFatal ==
    /\ [](Fatal => pc = "panicked" /\ wlock # "maintain")
    /\ [][Fatal => /\ Fatal'
                   /\ UNCHANGED << pc, failure, operations, last_loaded_block, inserted,
                                   lost >>
                   /\ \A b \in DOMAIN prepared' :
                         b \in DOMAIN prepared /\ prepared'[b] = prepared[b]]_vars
    /\ [][(failure = "none" /\ failure' # "none") =>
             /\ pc \in {"refill", "prepare"}
             /\ pc' = "panicked"
             /\ (pc = "refill" =>
                    UNCHANGED << operations, prepared, inserted, lost >>)]_vars

\* the refill pass failed while a queue held a block that the prepare pass of
\* the cycle would have taken
C13_Witness ==
    /\ failure = "couldn't get next commits"
    /\ pc = "panicked"
    /\ \E size \in BlockSizes : Len(operations[size]) >= 2

\* C14: the old_root of every prepared block is the committed root of the block
\* before it (the root of the genesis state for block 1), so that of two
\* consecutive blocks that are both prepared the old_root of the second is the
\* new_root of the first.
C14_ChainContinuity ==
    \A b \in DOMAIN prepared :
        /\ prepared[b].old_root =
              IF b = 1 THEN root_hash(GenesisTree) ELSE committed[b - 1].new_root_hash
        /\ b + 1 \in DOMAIN prepared => prepared[b + 1].old_root = prepared[b].new_root

\* two consecutive blocks of different sizes are both in the cache
C14_Witness ==
    \E b \in DOMAIN prepared :
        /\ b + 1 \in DOMAIN prepared
        /\ committed[b].block_size # committed[b + 1].block_size

\* the sum of the amounts of the fees of one token
RECURSIVE SumFees(_, _)
SumFees(fees, token) ==
    IF fees = << >> THEN 0
    ELSE (IF Head(fees).token = token THEN Head(fees).amount ELSE 0)
         + SumFees(Tail(fees), token)

\* C15 as stated: the balance of the fee account in a prepared block is, for
\* every token, its balance before the block plus the fees of that token
\* collected in the block.
C15_FeeBalanceIsPreBlockPlusFees ==
    \A b \in DOMAIN prepared : \A t \in Tokens :
        prepared[b].validator_balances[t] =
            load_committed_state(b - 1)[committed[b].fee_account][t]
            + SumFees(prepared[b].witness.fees, t)

\* C15: the balance of the fee account in a prepared block is, for every token,
\* the balance the fee account has once the operations of the block are applied
\* to the state before the block (its balance before the block changed by the
\* operations that credit or debit the fee account itself) plus the fees of that
\* token collected in the block.
C15_FeeBalanceIsReplayedPlusFees ==
    \A b \in DOMAIN prepared :
        LET fee_account == committed[b].fee_account
            after_ops == ApplyAll(load_committed_state(b - 1), committed[b].ops)
        IN \A t \in Tokens :
              prepared[b].validator_balances[t] =
                  after_ops[fee_account][t] + SumFees(prepared[b].witness.fees, t)

\* the cache holds a block with a fee whose operations do not touch the fee
\* account and a block in which the fee account receives a transfer
C15_Witness ==
    /\ \E b \in DOMAIN prepared :
          /\ prepared[b].witness.fees # << >>
          /\ \A i \in DOMAIN committed[b].ops :
                \/ committed[b].ops[i].kind = "Noop"
                \/ committed[b].ops[i].to # committed[b].fee_account
    /\ \E b \in DOMAIN prepared :
          /\ prepared[b].witness.fees # << >>
          /\ \E i \in DOMAIN committed[b].ops :
                /\ committed[b].ops[i].kind = "Transfer"
                /\ committed[b].ops[i].to = committed[b].fee_account

\* the maintain thread is inside a cycle: in its refill pass, between the two
\* passes or in its prepare pass
InCycle == pc \in {"refill", "prepare"}

\* C16: the maintain thread holds the write lock through the refill pass and the
\* prepare pass of a cycle, the consumer holds a read guard through a get and the
\* write lock through a clean_up, and the write lock excludes every other guard:
\* no get and no clean_up begins, runs or ends while a cycle is in progress, and
\* a clean_up and a cycle never overlap.
C16_LockSerializesPool ==
    /\ [](/\ InCycle => wlock = "maintain" /\ rlock = 0 /\ cpc = "idle"
          /\ cpc = "clean_up" => wlock = "consumer" /\ rlock = 0 /\ pc \in {"lock", "panicked"}
          /\ cpc = "get" => wlock = "none" /\ rlock = 1
          /\ cpc = "idle" => rlock = 0 /\ wlock # "consumer")
    /\ [][(InCycle \/ InCycle') => UNCHANGED << cpc, cblock, rlock >>]_vars
    /\ [][InCycle => got' = got]_vars
    /\ [][cpc # "idle" => UNCHANGED << operations, last_loaded_block, inserted, lost, pc >>]_vars

\* a cycle is between its two passes, after an earlier cycle has prepared a
\* block and a clean_up has removed it
C16_Witness ==
    /\ pc = "prepare"
    /\ qi = 1
    /\ wlock = "maintain"
    /\ \E size \in BlockSizes : \E b \in Range(inserted[size]) : b \notin DOMAIN prepared

\* the kinds of FranklinOp whose transaction carries a fee
FeeBearing == {"Transfer", "TransferToNew", "Withdraw"}

\* the fees of the fee-bearing operations of a list, in the order of the list
RECURSIVE ExpectedFees(_)
ExpectedFees(ops) ==
    IF ops = << >> THEN << >>
    ELSE (IF Head(ops).kind \in FeeBearing
          THEN << [token |-> Head(ops).token, amount |-> Head(ops).fee] >>
          ELSE << >>) \o ExpectedFees(Tail(ops))

\* C17: when the loop over the operations of a block ends without an error, the
\* fees recorded for the settlement are, in the order of the block, the
\* (token, fee) of every transfer, transfer-to-new and withdraw of the block,
\* one entry each, and nothing for an operation of any other kind.
C17_FeesAreTheFeeBearingOps ==
    replayed.err = "none" =>
        /\ replayed.fees = ExpectedFees(block_ops)
        /\ Len(replayed.fees) =
              Cardinality({i \in DOMAIN block_ops : block_ops[i].kind \in FeeBearing})

\* a block of a withdraw, an operation without a fee and a transfer-to-new was
\* replayed: two fees of different amounts were recorded
C17_Witness ==
    /\ replayed.err = "none"
    /\ Len(block_ops) = MaxOps
    /\ block_ops[1].kind = "Withdraw"
    /\ block_ops[2].kind \in {"Deposit", "FullExit", "ChangePubKeyOffchain", "Noop"}
    /\ block_ops[3].kind = "TransferToNew"
    /\ Len(replayed.fees) = 2

\* C18: every cursor is 0 or more, every block in a queue has a block number of
\* 1 or more, so the number of the snapshot its replay asks for is 0 or more and
\* names a block the storage holds or the genesis state, and no replay has
\* overflowed on it.
C18_QueuedBlocksHavePredecessor ==
    /\ \A size \in BlockSizes :
          /\ last_loaded_block[size] >= 0
          /\ \A b \in Range(operations[size]) :
                /\ committed[b].block_number >= 1
                /\ snapshot_of(committed[b].block_number) \in 0..(Len(committed) - 1)
    /\ \A b \in DOMAIN prepared \cup lost :
          snapshot_of(committed[b].block_number) \in 0..(Len(committed) - 1)
    /\ failure # "subtract with overflow"

\* block 1 was taken from a queue and replayed from the genesis state
C18_Witness ==
    /\ 1 \in DOMAIN prepared
    /\ prepared[1].old_root = root_hash(GenesisTree)
    /\ \E size \in BlockSizes : operations[size] # << >>

\* the blocks that are or were in the queue of a size
Enqueued(size) == Range(operations[size]) \cup Range(inserted[size])

\* the blocks that were inserted into the prepared cache
EverInserted == UNION {Range(inserted[size]) : size \in BlockSizes}

\* C19: a block is in the queue of its own size only, at most once, and a step
\* appends to a queue only blocks that were never in a queue before; a block is
\* inserted into the prepared cache at most once and never over an entry that is
\* there; a block that was inserted and has been removed by clean_up is never
\* in the cache again, so that get of it is absent from then on.
C19_EnqueuedAndInsertedOnce ==
    /\ [](\A size \in BlockSizes :
            /\ \A i, j \in DOMAIN operations[size] :
                  i # j => operations[size][i] # operations[size][j]
            /\ \A i, j \in DOMAIN inserted[size] :
                  i # j => inserted[size][i] # inserted[size][j]
            /\ Range(operations[size]) \cap Range(inserted[size]) = {}
            /\ \A b \in Enqueued(size) : committed[b].block_size = size)
    /\ [](DOMAIN prepared \subseteq EverInserted)
    /\ [][\A size \in BlockSizes :
             \A i \in (Len(operations[size]) + 1)..Len(operations'[size]) :
                (pc = "refill" /\ order[qi] = size) =>
                    \A other \in BlockSizes :
                        operations'[size][i] \notin Enqueued(other) \cup lost]_vars
    /\ [][\A b \in DOMAIN prepared' \ DOMAIN prepared :
             b \notin EverInserted /\ b \in EverInserted']_vars
    /\ [][\A b \in DOMAIN prepared \cap DOMAIN prepared' : prepared'[b] = prepared[b]]_vars
    /\ [][\A b \in EverInserted \ DOMAIN prepared :
             b \notin DOMAIN prepared' /\ ~get(prepared', b).some]_vars

\* a block was prepared and cleaned up, and a later block of its size was
\* prepared after further refills
C19_Witness ==
    \E size \in BlockSizes :
        /\ Len(inserted[size]) >= 3
        /\ inserted[size][1] \notin DOMAIN prepared
        /\ inserted[size][3] \in DOMAIN prepared

\* C20: when no collaborator fails and the maintain thread keeps cycling, every
\* block the storage holds is in the end inserted into the prepared cache,
\* unless it was verified first; a block that is inserted was in the queue of
\* its size before; and the cursor of a size has passed no unverified block of
\* that size without loading it.
C20_EveryOfferedBlockIsPrepared ==
    /\ \A b \in 1..MaxBlock :
          (b \in 1..Len(committed)) ~> (b \in EverInserted \/ b <= verified)
    /\ [](\A size \in BlockSizes : \A b \in 1..Len(committed) :
            (/\ committed[b].block_size = size
             /\ b <= last_loaded_block[size]
             /\ b > verified) => b \in Enqueued(size))
    /\ [][\A b \in EverInserted' \ EverInserted :
             b \in Range(operations[committed[b].block_size])]_vars

\* with limit 1, every block the storage can hold was committed, all of one
\* size, none verified, and all were inserted
C20_Witness ==
    /\ limit = 1
    /\ Len(committed) = MaxBlock
    /\ verified = 0
    /\ \E size \in BlockSizes : Len(inserted[size]) = MaxBlock

====
